---- MODULE Spec2Model ----
(***************************************************************************)
(* A model of the verge-news MCP server (src/src/index.ts): the retry      *)
(* executor, the feed and article fetchers, the filter / sample / format   *)
(* pipeline and the five tool handlers.                                    *)
(*                                                                         *)
(* Text is modelled as a sequence of atoms.  An atom is a TLA+ string that *)
(* stands for an indivisible piece of text: a single character where the   *)
(* code counts characters (item content), a word or a literal of the       *)
(* source elsewhere.  String concatenation is \o, s.length is Len(s) and   *)
(* s.includes(x) is Includes(s, x).                                        *)
(***************************************************************************)
EXTENDS Integers, Sequences, FiniteSets, TLC

(***************************************************************************)
(* JavaScript values                                                       *)
(***************************************************************************)

\* The JS value undefined, where a string is expected.
None == <<"<undefined>">>

\* An absent FetchError.statusCode / an absent numeric argument.
NoNumber == -1

\* JS truthiness of a string-or-undefined value: "" and undefined are falsy.
Truthy(s) == s # None /\ s # <<>>

\* a || b on string-or-undefined values.
Or(a, b) == IF Truthy(a) THEN a ELSE b

\* s.includes(sub)
Includes(s, sub) ==
    \E i \in 1..(Len(s) - Len(sub) + 1) : SubSeq(s, i, i + Len(sub) - 1) = sub

\* s.substring(0, n) for 0 <= n
Substring0(s, n) == SubSeq(s, 1, IF n < Len(s) THEN n ELSE Len(s))

\* The white space characters String.prototype.trim removes (those the model uses).
WhiteSpace == {" ", "\n"}

RECURSIVE TrimStart(_)
TrimStart(s) ==
    IF s # <<>> /\ Head(s) \in WhiteSpace THEN TrimStart(Tail(s)) ELSE s

RECURSIVE TrimEnd(_)
TrimEnd(s) ==
    IF s # <<>> /\ s[Len(s)] \in WhiteSpace
    THEN TrimEnd(SubSeq(s, 1, Len(s) - 1))
    ELSE s

\* s.trim()
Trim(s) == TrimEnd(TrimStart(s))

\* String.prototype.toLowerCase on one character (the letters the model uses).
LowerChar(ch) ==
    CASE ch = "A" -> "a"
      [] ch = "I" -> "i"
      [] OTHER -> ch

\* s.toLowerCase()
ToLowerCase(s) == [i \in 1..Len(s) |-> LowerChar(s[i])]

\* Math.pow(2, n) for a natural n
RECURSIVE Pow2(_)
Pow2(n) == IF n = 0 THEN 1 ELSE 2 * Pow2(n - 1)

\* n copies of the character ch
Repeat(ch, n) == [i \in 1..n |-> ch]

\* array.join(sep) on an array of strings
RECURSIVE Join(_, _)
Join(parts, sep) ==
    IF parts = <<>> THEN <<>>
    ELSE IF Len(parts) = 1 THEN parts[1]
    ELSE parts[1] \o sep \o Join(Tail(parts), sep)

(***************************************************************************)
(* Time.  A time value is a number of ticks since the epoch, TicksPerDay   *)
(* ticks to the day; a Date object is [valid, t], valid = FALSE being the  *)
(* Invalid Date (time value NaN).  Months have MonthLen days.              *)
(***************************************************************************)

TicksPerDay == 2
MonthLen == 5
MaxTime == 80

InvalidDate == [valid |-> FALSE, t |-> 0]
DateAt(t) == [valid |-> TRUE, t |-> t]

\* The date string (pubDate) a feed writes for time t.
DateString(t) == <<"date:", ToString(t)>>

\* new Date(string): the time the string denotes, Invalid Date for any
\* string that is not a date string.
NewDate(s) ==
    IF \E t \in 0..MaxTime : s = DateString(t)
    THEN DateAt(CHOOSE t \in 0..MaxTime : s = DateString(t))
    ELSE InvalidDate

\* Day(t), TimeWithinDay(t), DateFromTime(t) of ECMA-262 (local time = UTC).
Day(t) == t \div TicksPerDay
TimeWithinDay(t) == t % TicksPerDay
DateFromTime(t) == (Day(t) % MonthLen) + 1

\* ToIntegerOrInfinity(x / TicksPerDay): truncation toward zero.
ToIntegerDays(x) ==
    IF x >= 0 THEN x \div TicksPerDay ELSE -((-x) \div TicksPerDay)

\* date.setDate(date.getDate() - daysBack) on the Date of time t, daysBack
\* given in ticks (daysBack = ticks / TicksPerDay days): MakeDay adds the
\* truncated day-of-month to the first day of t's month, the time within the
\* day is kept.
SetDateBack(t, ticks) ==
    LET dt == ToIntegerDays(DateFromTime(t) * TicksPerDay - ticks)
        firstOfMonth == Day(t) - (DateFromTime(t) - 1)
    IN  DateAt((firstOfMonth + dt - 1) * TicksPerDay + TimeWithinDay(t))

\* a >= b on Date objects: the comparison of the time values, false when
\* either is NaN.
DateGE(a, b) == a.valid /\ b.valid /\ a.t >= b.t

(***************************************************************************)
(* Feeds, items and errors                                                 *)
(***************************************************************************)

FeedCategory == {"all", "tech", "science", "reviews", "entertainment"}

VERGE_FEEDS(category) ==
    CASE category = "all" -> <<"https://www.theverge.com/rss/index.xml">>
      [] category = "tech" -> <<"https://www.theverge.com/rss/tech/index.xml">>
      [] category = "science" -> <<"https://www.theverge.com/rss/science/index.xml">>
      [] category = "reviews" -> <<"https://www.theverge.com/rss/reviews/index.xml">>
      [] category = "entertainment" ->
            <<"https://www.theverge.com/rss/entertainment/index.xml">>

RSS_SOURCE_NAME == <<"The Verge">>

\* new FetchError(message, cause, url, statusCode); cause is kept as the
\* message of the underlying error.
FetchError(message, cause, url, statusCode) ==
    [name |-> "FetchError", message |-> message, cause |-> cause,
     url |-> url, statusCode |-> statusCode]

\* let lastError: Error | undefined
NoError == [name |-> "none", message |-> <<"undefined">>, cause |-> None,
            url |-> None, statusCode |-> NoNumber]

\* A classifier that looks for 404 before the other signatures.
fetchNewsCatch_404first(errorMessage, feedUrl) ==
    IF Includes(errorMessage, <<"404">>)
    THEN FetchError(
           <<"Feed not found - the RSS feed URL may be incorrect.">>,
           errorMessage, feedUrl, 404)
    ELSE IF Includes(errorMessage, <<"ENOTFOUND">>) \/ Includes(errorMessage, <<"EAI_AGAIN">>)
    THEN FetchError(
           <<"DNS resolution failed - cannot reach the server. Check your internet connection.">>,
           errorMessage, feedUrl, NoNumber)
    ELSE IF Includes(errorMessage, <<"ETIMEDOUT">>) \/ Includes(errorMessage, <<"timeout">>)
    THEN FetchError(
           <<"Request timed out - the server took too long to respond.">>,
           errorMessage, feedUrl, NoNumber)
    ELSE IF Includes(errorMessage, <<"ECONNREFUSED">>)
    THEN FetchError(
           <<"Connection refused - the server is not accepting connections.">>,
           errorMessage, feedUrl, NoNumber)
    ELSE IF Includes(errorMessage, <<"403">>) \/ Includes(errorMessage, <<"Access denied">>)
    THEN FetchError(
           <<"Access denied - the server blocked the request. Try again later.">>,
           errorMessage, feedUrl, 403)
    ELSE FetchError(<<"Failed to fetch RSS feed: ">> \o errorMessage,
                    errorMessage, feedUrl, NoNumber)

\* The catch block of fetchNews' operation: the FetchError thrown for an
\* underlying failure with message errorMessage.
fetchNewsCatch(errorMessage, feedUrl) ==
    IF Includes(errorMessage, <<"ENOTFOUND">>) \/ Includes(errorMessage, <<"EAI_AGAIN">>)
    THEN FetchError(
           <<"DNS resolution failed - cannot reach the server. Check your internet connection.">>,
           errorMessage, feedUrl, NoNumber)
    ELSE IF Includes(errorMessage, <<"ETIMEDOUT">>) \/ Includes(errorMessage, <<"timeout">>)
    THEN FetchError(
           <<"Request timed out - the server took too long to respond.">>,
           errorMessage, feedUrl, NoNumber)
    ELSE IF Includes(errorMessage, <<"ECONNREFUSED">>)
    THEN FetchError(
           <<"Connection refused - the server is not accepting connections.">>,
           errorMessage, feedUrl, NoNumber)
    ELSE IF Includes(errorMessage, <<"403">>) \/ Includes(errorMessage, <<"Access denied">>)
    THEN FetchError(
           <<"Access denied - the server blocked the request. Try again later.">>,
           errorMessage, feedUrl, 403)
    ELSE IF Includes(errorMessage, <<"404">>)
    THEN FetchError(
           <<"Feed not found - the RSS feed URL may be incorrect.">>,
           errorMessage, feedUrl, 404)
    ELSE FetchError(<<"Failed to fetch RSS feed: ">> \o errorMessage,
                    errorMessage, feedUrl, NoNumber)

\* The FetchError fetchArticleContent throws for a response that is not ok.
articleHttpError(status, statusText, articleUrl) ==
    FetchError(<<"HTTP ", ToString(status), ": ">> \o statusText,
               None, articleUrl, status)

\* A catch block that wraps every error, a FetchError too.
articleCatch_wrapAll(error, articleUrl) ==
    FetchError(<<"Failed to fetch article: ">> \o error.message,
               error.message, articleUrl, NoNumber)

\* The catch block of fetchArticleContent's operation: a FetchError is
\* thrown on as it is, any other error is wrapped.
articleCatch(error, articleUrl) ==
    IF error.name = "FetchError" THEN error
    ELSE FetchError(<<"Failed to fetch article: ">> \o error.message,
                    error.message, articleUrl, NoNumber)

\* response.ok
ResponseOk(status) == status >= 200 /\ status <= 299

MIN_CONTENT == 100
MAX_CONTENT == 5000

\* A length policy that also sends a text of exactly MIN_CONTENT characters
\* to the fallback.
articleResult_minInclusive(content, articleUrl) ==
    IF content = <<>> \/ Len(content) <= MIN_CONTENT
    THEN <<"Could not extract article content. Please visit the URL directly: ">>
            \o articleUrl
    ELSE IF Len(content) > MAX_CONTENT
    THEN Substring0(content, MAX_CONTENT)
            \o <<".", ".", ".", "\n\n[Content truncated. Visit the full article for more.]">>
    ELSE content

\* The tail of fetchArticleContent's operation: the value returned for the
\* extracted, cleaned text content.
articleResult(content, articleUrl) ==
    IF content = <<>> \/ Len(content) < MIN_CONTENT
    THEN <<"Could not extract article content. Please visit the URL directly: ">>
            \o articleUrl
    ELSE IF Len(content) > MAX_CONTENT
    THEN Substring0(content, MAX_CONTENT)
            \o <<".", ".", ".", "\n\n[Content truncated. Visit the full article for more.]">>
    ELSE content

(***************************************************************************)
(* The filter / sample / format pipeline                                   *)
(***************************************************************************)

\* A parsed feed item (Parser.Item); an absent field is None.
Item(title, pubDate, contentSnippet, content) ==
    [title |-> title, link |-> None, pubDate |-> pubDate, creator |-> None,
     contentSnippet |-> contentSnippet, content |-> content, categories |-> None]

formatNewsItems(items) ==
    [i \in 1..Len(items) |->
        [title |-> Or(items[i].title, <<"No title">>),
         link |-> Or(items[i].link, <<"#">>),
         pubDate |-> Or(items[i].pubDate, <<"Unknown date">>),
         creator |-> Or(items[i].creator, <<"Unknown author">>),
         content |-> Or(Or(items[i].contentSnippet, items[i].content),
                        <<"No content available">>),
         categories |-> IF items[i].categories = None THEN <<>>
                        ELSE items[i].categories]]

\* The callback of filterNewsByDate's items.filter.
keepByDate(item, cutoffDate) ==
    IF ~Truthy(item.pubDate) THEN FALSE
    ELSE DateGE(NewDate(item.pubDate), cutoffDate)

\* filterNewsByDate(items, daysBack) called at time nowT; daysBack in ticks.
filterNewsByDate(items, daysBack, nowT) ==
    LET cutoffDate == SetDateBack(nowT, daysBack)
    IN  SelectSeq(items, LAMBDA item : keepByDate(item, cutoffDate))

\* The callback of filterNewsByKeyword's items.filter.
keepByKeyword(item, lowerKeyword) ==
    LET title == ToLowerCase(Or(item.title, <<>>))
        content == ToLowerCase(Or(Or(item.contentSnippet, item.content), <<>>))
    IN  Includes(title, lowerKeyword) \/ Includes(content, lowerKeyword)

filterNewsByKeyword(items, keyword) ==
    SelectSeq(items, LAMBDA item : keepByKeyword(item, ToLowerCase(keyword)))

SUMMARY_LENGTH == 150
DEFAULT_LIMIT == 10

Ellipsis == <<".", ".", ".">>

\* A summary that appends the ellipsis from SUMMARY_LENGTH characters on.
summaryOf_atLimit(content) ==
    Trim(Substring0(content, SUMMARY_LENGTH))
        \o (IF Len(content) >= SUMMARY_LENGTH THEN Ellipsis ELSE <<>>)

\* The summary line of one formatted item.
summaryOf(content) ==
    Trim(Substring0(content, SUMMARY_LENGTH))
        \o (IF Len(content) > SUMMARY_LENGTH THEN Ellipsis ELSE <<>>)

\* The text block of the formatted item at 0-based position index.
itemBlock(item, index) ==
    <<"\n", ToString(index + 1), ". ">> \o item.title
        \o <<"\n   Published: ">> \o item.pubDate
        \o <<"\n   Author: ">> \o item.creator
        \o <<"\n   Link: ">> \o item.link
        \o <<"\n   Summary: ">> \o summaryOf(item.content)
        \o <<"\n">>

NO_NEWS == <<"No news articles found for the specified criteria.">>

\* A formatter without the check for an empty list.
formatNewsAsBriefSummary_noEmptyCheck(items, limit) ==
    LET limitedItems == Substring0(items, limit)
    IN  Join([i \in 1..Len(limitedItems) |-> itemBlock(limitedItems[i], i - 1)],
             <<"\n---\n">>)

formatNewsAsBriefSummary(items, limit) ==
    IF Len(items) = 0 THEN NO_NEWS
    ELSE LET limitedItems == Substring0(items, limit)
         IN  Join([i \in 1..Len(limitedItems) |-> itemBlock(limitedItems[i], i - 1)],
                  <<"\n---\n">>)

\* A splice that removes nothing: sampling with replacement.
Splice1_keep(arr, index) == arr

\* array.splice(index, 1) with a 0-based index
Splice1(arr, index) ==
    SubSeq(arr, 1, index) \o SubSeq(arr, index + 2, Len(arr))

\* The loop of getRandomNewsItems from iteration i on; draws[i + 1] is the
\* value randomIndex takes in iteration i.
RECURSIVE randomLoop(_, _, _, _, _)
randomLoop(itemsCopy, result, i, count, draws) ==
    IF i < count /\ Len(itemsCopy) > 0
    THEN LET randomIndex == draws[i + 1]
         IN  randomLoop(Splice1(itemsCopy, randomIndex),
                        Append(result, itemsCopy[randomIndex + 1]),
                        i + 1, count, draws)
    ELSE result

\* getRandomNewsItems(items, count) when Math.random makes randomIndex take
\* the values draws.
getRandomNewsItems(items, count, draws) ==
    IF Len(items) <= count THEN items
    ELSE randomLoop(items, <<>>, 0, count, draws)

\* The values Math.floor(Math.random() * length) can take over the
\* iterations of getRandomNewsItems on n items: iteration i draws from the
\* n - i items left.  No draw is made when n <= count.
RandomDraws(n, count) ==
    IF n <= count THEN {<<>>}
    ELSE {d \in [1..count -> 0..(n - 1)] : \A i \in 1..count : d[i] <= n - i}

formatErrorMessage(error) ==
    IF error.name = "FetchError"
    THEN error.message
            \o (IF Truthy(error.url) THEN <<"\n   URL: ">> \o error.url ELSE <<>>)
            \o (IF error.statusCode # NoNumber /\ error.statusCode # 0
                THEN <<"\n   Status: ", ToString(error.statusCode)>> ELSE <<>>)
    ELSE error.message

(***************************************************************************)
(* The retry executor (withRetry) and the tool handlers                    *)
(***************************************************************************)

FEED_MAX_RETRIES == 3
FEED_BASE_DELAY == 1000
ARTICLE_MAX_RETRIES == 2
ARTICLE_BASE_DELAY == 1000
DAILY_DAYS == 1
WEEKLY_DAYS == 7
SEARCH_DEFAULT_DAYS == 30
RANDOM_COUNT == 10

\* A loop without its bound.
loopContinues_unbounded(attempt, maxRetries) == TRUE

\* for (...; attempt <= maxRetries; ...)
loopContinues(attempt, maxRetries) == attempt <= maxRetries

\* if (attempt < maxRetries): a wait follows the failed attempt.
waitsAfter(attempt, maxRetries) == attempt < maxRetries

\* A linear backoff.
delayMs_linear(baseDelayMs, attempt) == baseDelayMs * (attempt + 1)

\* const delayMs = baseDelayMs * Math.pow(2, attempt)
delayMs(baseDelayMs, attempt) == baseDelayMs * Pow2(attempt)

\* A withRetry that keeps the first error it caught.
caught_keepFirst(lastError, error) ==
    IF lastError.name = "none" THEN error ELSE lastError

\* lastError = error instanceof Error ? error : new Error(String(error))
caught(lastError, error) == error

FeedTools == {"get-daily-news", "get-weekly-news", "search-news"}
Tools == FeedTools \cup {"get-article", "list-categories"}

\* An absent category argument.
NoCategory == "<undefined>"

\* The destructuring default: category = "all"
categoryOf(category) == IF category = NoCategory THEN "all" ELSE category

\* A resolution that prefers the configured URL to the caller's.
resolveFeedUrl_configFirst(customUrl, configUrl, category) ==
    Or(Or(configUrl, customUrl), VERGE_FEEDS(category))

\* const feedUrl = customUrl || customRssUrl || VERGE_FEEDS[category]
resolveFeedUrl(customUrl, configUrl, category) ==
    Or(Or(customUrl, configUrl), VERGE_FEEDS(category))

\* const sourceName = customUrl ? "Custom Feed" : (customRssUrl ? ... : ...)
sourceNameOf(customUrl, configUrl, category) ==
    IF Truthy(customUrl) THEN <<"Custom Feed">>
    ELSE IF Truthy(configUrl) THEN <<"Custom Feed">>
    ELSE RSS_SOURCE_NAME \o <<" (", category, ")">>

\* A number of days given in ticks, as a template literal prints it.
numberText(ticks) ==
    IF ticks % TicksPerDay = 0 THEN <<ToString(ticks \div TicksPerDay)>>
    ELSE <<ToString(ticks), "/", ToString(TicksPerDay)>>

\* What a handler ends with: the returned envelope, or an exception that
\* leaves the handler (escaped).
Returned(isError, text) == [escaped |-> FALSE, isError |-> isError, text |-> text]
Escaped == [escaped |-> TRUE, isError |-> FALSE, text |-> None]
NoResponse == [escaped |-> FALSE, isError |-> FALSE, text |-> None]

\* The first line of a handler's error text.
errorPrefix(toolName) ==
    CASE toolName = "get-daily-news" -> <<"Error fetching daily news:\n">>
      [] toolName = "get-weekly-news" -> <<"Error fetching weekly news:\n">>
      [] toolName = "search-news" -> <<"Error searching news:\n">>
      [] toolName = "get-article" -> <<"Error fetching article:\n">>

\* A handler whose catch block throws the error on.
handlerCatch_rethrow(toolName, error, url) == Escaped

\* The catch block of a tool handler.
handlerCatch(toolName, error, url) ==
    Returned(TRUE,
        errorPrefix(toolName) \o formatErrorMessage(error)
            \o (IF toolName = "get-article"
                THEN <<"\n\nYou can try visiting the URL directly: ">> \o url
                ELSE <<>>))

\* The list a feed handler hands to formatNewsItems.
survivorsOf(toolName, allNews, days, keyword, draws, nowT) ==
    CASE toolName = "get-daily-news" ->
            filterNewsByDate(allNews, DAILY_DAYS * TicksPerDay, nowT)
      [] toolName = "get-weekly-news" ->
            getRandomNewsItems(
                filterNewsByDate(allNews, WEEKLY_DAYS * TicksPerDay, nowT),
                RANDOM_COUNT, draws)
      [] toolName = "search-news" ->
            filterNewsByKeyword(filterNewsByDate(allNews, days, nowT), keyword)

\* newsText of a feed handler.
newsTextOf(toolName, survivors) ==
    formatNewsAsBriefSummary(formatNewsItems(survivors), DEFAULT_LIMIT)

\* The text of a feed handler's success envelope.
successText(toolName, sourceName, survivors, newsText, days, keyword) ==
    CASE toolName = "get-daily-news" ->
            <<"# ">> \o sourceName \o <<" - Today's News\n\n">> \o newsText
      [] toolName = "get-weekly-news" ->
            <<"# ">> \o sourceName \o <<" - Weekly News Highlights\n\n">> \o newsText
      [] toolName = "search-news" ->
            <<"# ">> \o sourceName \o <<" - Search Results for \"">> \o keyword
                \o <<"\"\n\nFound ", ToString(Len(survivors)), " articles matching \"">>
                \o keyword \o <<"\" in the last ">> \o numberText(days)
                \o <<" days.\n\n">> \o newsText

\* The text of get-article's success envelope.
articleText(url, content) ==
    <<"# Article Content\n\nURL: ">> \o url \o <<"\n\n---\n\n">> \o content

\* The text of list-categories (the back quotes around category are
\* written as single quotes).
categoriesText ==
    <<"# Available ">> \o RSS_SOURCE_NAME \o <<" Categories\n\n">>
        \o Join([i \in 1..5 |->
                    LET cat == <<"all", "tech", "science", "reviews", "entertainment">>[i]
                    IN  <<"- **", cat, "**: ">> \o VERGE_FEEDS(cat)],
                <<"\n">>)
        \o <<"\n\nUse the 'category' parameter in other tools to filter by category.">>

(***************************************************************************)
(* State                                                                   *)
(***************************************************************************)

VARIABLES
    customRssUrl,   \* config.customRssUrl of createServer, None when absent
    now,            \* the time new Date() returns
    active,         \* the tool calls the protocol host makes
    handler,        \* per call: the tool handler's arguments, locals and result
    retry,          \* per call: the frame of withRetry and what it did
    op,             \* the pipeline function applied on its own, "none" if none
    arg,            \* its arguments
    ret             \* its result

vars == <<customRssUrl, now, active, handler, retry, op, arg, ret>>

Calls == {"c1", "c2"}

\* The inputs the environment offers.
CallerUrl == <<"https://caller.example/feed.xml">>
ConfigUrl == <<"https://config.example/feed.xml">>
ArticleUrl == <<"https://www.theverge.com/a-story">>
MainNow == 70

Keywords == {<<"a", "i">>, <<"z">>}

\* search-news' days argument in ticks (NoNumber: absent).
DaysArgs == {NoNumber, 1, 3 * TicksPerDay}

\* Messages of the errors parser.parseURL rejects with.
FeedMessages ==
    { <<"getaddrinfo ", "ENOTFOUND", " www.theverge.com">>,
      <<"connect ", "ETIMEDOUT">>,
      <<"connect ", "ECONNREFUSED">>,
      <<"Status code ", "403">>,
      <<"Status code ", "404">>,
      <<"Status code ", "500">>,
      <<"ENOTFOUND", " after ", "404">> }

\* Messages of the errors fetch rejects with.
ArticleMessages == { <<"fetch failed">>, <<"read ", "ECONNRESET">> }

\* HTTP statuses of article responses, and their status texts.
Statuses == {200, 204, 403, 404, 500}
statusTextOf(status) ==
    CASE status = 200 -> <<"OK">>
      [] status = 204 -> <<"No Content">>
      [] status = 403 -> <<"Forbidden">>
      [] status = 404 -> <<"Not Found">>
      [] status = 500 -> <<"Internal Server Error">>

\* A text of n characters that begins with "a" and ends with "z".
TextOfLength(n) ==
    [i \in 1..n |-> IF i = 1 THEN "a" ELSE IF i = n THEN "z" ELSE "x"]

\* Article texts as the whitespace collapse leaves them: empty, just below,
\* at and just above the minimum and the maximum length, and one that reaches
\* the minimum length only with the spaces at its ends.
ArticleContents ==
    { <<>>, TextOfLength(MIN_CONTENT - 1), TextOfLength(MIN_CONTENT),
      <<" ">> \o TextOfLength(MIN_CONTENT - 1) \o <<" ">>,
      TextOfLength(MAX_CONTENT), TextOfLength(MAX_CONTENT + 1) }

\* Items of the feeds the environment serves at time MainNow.
fresh == Item(<<"A", "I">>, DateString(MainNow - 1), <<"n", "e", "w">>, None)
recent == Item(<<"Z">>, DateString(MainNow - 2 * TicksPerDay), None, <<"a", "i">>)
stale == Item(None, DateString(0), None, None)
undated == Item(<<"A", "I">>, None, <<"a">>, None)
garbled == Item(<<"A", "I">>, <<"Unknown date">>, <<"a">>, None)

\* What parser.parseURL resolves with: feed.items, absent in a feed
\* without items.
FeedResults ==
    { [hasItems |-> FALSE, items |-> <<>>],
      [hasItems |-> TRUE, items |-> <<>>],
      [hasItems |-> TRUE, items |-> <<fresh>>],
      [hasItems |-> TRUE, items |-> <<stale, undated, garbled>>],
      [hasItems |-> TRUE, items |-> <<recent, fresh, stale>>] }

\* feed.items || []
itemsOf(feed) == IF feed.hasItems THEN feed.items ELSE <<>>

\* The inputs offered while several calls run at once: the failures and
\* results that tell the calls apart, a few of each.
ConcurrentTools == {"get-daily-news"}
ConcurrentCategories == {NoCategory, "tech"}
ConcurrentFeedMessages ==
    { <<"getaddrinfo ", "ENOTFOUND", " www.theverge.com">>,
      <<"Status code ", "404">> }
ConcurrentFeedResults ==
    { [hasItems |-> FALSE, items |-> <<>>],
      [hasItems |-> TRUE, items |-> <<fresh>>] }
ConcurrentStatuses == {200, 500}
ConcurrentArticleMessages == { <<"fetch failed">> }
ConcurrentArticleContents == { <<>>, TextOfLength(MIN_CONTENT) }

\* all when the host makes one call, some when it makes several at once.
Offered(all, some) == IF Cardinality(active) > 1 THEN some ELSE all

JsError(message) ==
    [name |-> "Error", message |-> message, cause |-> None,
     url |-> None, statusCode |-> NoNumber]

\* The result of a pipeline function applied on its own.
NoRet == [done |-> FALSE, value |-> <<>>]
Ret(value) == [done |-> TRUE, value |-> value]

IdleHandler ==
    [pc |-> "idle", tool |-> "none", category |-> NoCategory, customUrl |-> None,
     keyword |-> None, days |-> NoNumber, url |-> None, survivors |-> <<>>,
     newsText |-> None, response |-> NoResponse]

IdleRetry ==
    [maxRetries |-> 0, baseDelayMs |-> 0, attempt |-> 0, lastError |-> NoError,
     url |-> None, fnCalls |-> 0, thrown |-> NoError, status |-> NoNumber,
     delays |-> <<>>, extracted |-> None, value |-> <<>>, outcome |-> "none"]

Init ==
    /\ customRssUrl \in {None, ConfigUrl}
    /\ now = MainNow
    /\ active = {"c1"}
    /\ handler = [c \in Calls |-> IdleHandler]
    /\ retry = [c \in Calls |-> IdleRetry]
    /\ op = "none"
    /\ arg = <<>>
    /\ ret = NoRet

(***************************************************************************)
(* Actions                                                                 *)
(***************************************************************************)

\* A loop head whose attempt counter is one counter for all calls: the
\* attempts of every frame count against the budget of each.
iterate_sharedCounter(c, h, r) ==
    LET others == Calls \ {c}
        shared == r.attempt
                    + Cardinality({d \in others : retry[d].attempt >= 1})
                    + Cardinality({d \in others : retry[d].attempt >= 2})
                    + Cardinality({d \in others : retry[d].attempt >= 3})
                    + Cardinality({d \in others : retry[d].attempt >= 4})
    IN  IF loopContinues(shared, r.maxRetries)
        THEN /\ retry' = [retry EXCEPT ![c] = [r EXCEPT !.fnCalls = @ + 1]]
             /\ handler' = [handler EXCEPT ![c] = [h EXCEPT !.pc = "net"]]
        ELSE /\ retry' = [retry EXCEPT ![c] = [r EXCEPT !.outcome = "threw"]]
             /\ handler' = [handler EXCEPT ![c] =
                    [h EXCEPT !.pc = "done",
                              !.response = handlerCatch(h.tool, r.lastError, h.url)]]

\* The head of withRetry's loop on frame r: fn is called, or the loop is left
\* and lastError is thrown to the handler h, whose catch block returns.
iterate(c, h, r) ==
    IF loopContinues(r.attempt, r.maxRetries)
    THEN /\ retry' = [retry EXCEPT ![c] = [r EXCEPT !.fnCalls = @ + 1]]
         /\ handler' = [handler EXCEPT ![c] = [h EXCEPT !.pc = "net"]]
    ELSE /\ retry' = [retry EXCEPT ![c] = [r EXCEPT !.outcome = "threw"]]
         /\ handler' = [handler EXCEPT ![c] =
                [h EXCEPT !.pc = "done",
                          !.response = handlerCatch(h.tool, r.lastError, h.url)]]

\* fn throws error in the current attempt: withRetry's catch block.
fnThrows(c, error, status) ==
    LET r == [retry[c] EXCEPT !.lastError = caught(@, error),
                              !.thrown = error, !.status = status]
    IN  IF waitsAfter(r.attempt, r.maxRetries)
        THEN /\ retry' = [retry EXCEPT ![c] =
                    [r EXCEPT !.delays = Append(@, delayMs(r.baseDelayMs, r.attempt))]]
             /\ handler' = [handler EXCEPT ![c].pc = "backoff"]
        ELSE iterate(c, handler[c], [r EXCEPT !.attempt = @ + 1])

\* The host calls get-daily-news, get-weekly-news or search-news: the
\* handler resolves the feed URL and fetchNews enters withRetry.
StartFeedTool(c) ==
    /\ c \in active
    /\ handler[c].pc = "idle"
    /\ \E toolName \in Offered(FeedTools, ConcurrentTools),
          category \in Offered(FeedCategory \cup {NoCategory}, ConcurrentCategories),
          customUrl \in Offered({None, CallerUrl}, {None}),
          keyword \in Offered(Keywords, {<<"z">>}),
          days \in Offered(DaysArgs, {NoNumber}) :
          /\ toolName # "search-news" => keyword = <<"z">> /\ days = NoNumber
          /\ iterate(c,
                [IdleHandler EXCEPT
                    !.tool = toolName,
                    !.category = category,
                    !.customUrl = customUrl,
                    !.keyword = IF toolName = "search-news" THEN keyword ELSE None,
                    !.days = IF toolName # "search-news" THEN NoNumber
                             ELSE IF days = NoNumber
                                  THEN SEARCH_DEFAULT_DAYS * TicksPerDay
                                  ELSE days],
                [IdleRetry EXCEPT
                    !.maxRetries = FEED_MAX_RETRIES,
                    !.baseDelayMs = FEED_BASE_DELAY,
                    !.url = resolveFeedUrl(customUrl, customRssUrl,
                                           categoryOf(category))])
    /\ UNCHANGED <<customRssUrl, now, active, op, arg, ret>>

\* The host calls get-article: fetchArticleContent enters withRetry.
StartGetArticle(c) ==
    /\ c \in active
    /\ handler[c].pc = "idle"
    /\ iterate(c,
            [IdleHandler EXCEPT !.tool = "get-article", !.url = ArticleUrl],
            [IdleRetry EXCEPT
                !.maxRetries = ARTICLE_MAX_RETRIES,
                !.baseDelayMs = ARTICLE_BASE_DELAY,
                !.url = ArticleUrl])
    /\ UNCHANGED <<customRssUrl, now, active, op, arg, ret>>

\* The host calls list-categories.
ListCategories(c) ==
    /\ c \in active
    /\ handler[c].pc = "idle"
    /\ handler' = [handler EXCEPT ![c] =
            [IdleHandler EXCEPT !.pc = "done", !.tool = "list-categories",
                                !.response = Returned(FALSE, categoriesText)]]
    /\ UNCHANGED <<customRssUrl, now, active, retry, op, arg, ret>>

\* parser.parseURL resolves: withRetry returns the items and the handler
\* filters, samples, formats and returns.
FeedFetched(c) ==
    /\ handler[c].pc = "net"
    /\ handler[c].tool \in FeedTools
    /\ \E feed \in Offered(FeedResults, ConcurrentFeedResults) :
        LET h == handler[c]
            allNews == itemsOf(feed)
            pool == IF h.tool = "get-weekly-news"
                    THEN Len(filterNewsByDate(allNews, WEEKLY_DAYS * TicksPerDay, now))
                    ELSE 0
        IN  \E draws \in RandomDraws(pool, RANDOM_COUNT) :
            LET survivors == survivorsOf(h.tool, allNews, h.days, h.keyword, draws, now)
                newsText == newsTextOf(h.tool, survivors)
                sourceName == sourceNameOf(h.customUrl, customRssUrl, categoryOf(h.category))
            IN  /\ retry' = [retry EXCEPT ![c] =
                        [@ EXCEPT !.value = allNews, !.outcome = "returned"]]
                /\ handler' = [handler EXCEPT ![c] =
                        [h EXCEPT !.pc = "done",
                                  !.survivors = survivors,
                                  !.newsText = newsText,
                                  !.response = Returned(FALSE,
                                      successText(h.tool, sourceName, survivors,
                                                  newsText, h.days, h.keyword))]]
    /\ UNCHANGED <<customRssUrl, now, active, op, arg, ret>>

\* parser.parseURL rejects: the operation classifies the failure and throws.
FeedFailed(c) ==
    /\ handler[c].pc = "net"
    /\ handler[c].tool \in FeedTools
    /\ \E errorMessage \in Offered(FeedMessages, ConcurrentFeedMessages) :
          fnThrows(c, fetchNewsCatch(errorMessage, retry[c].url), NoNumber)
    /\ UNCHANGED <<customRssUrl, now, active, op, arg, ret>>

\* fetch resolves with a response: a response that is not ok is thrown as a
\* FetchError, an ok one is extracted and returned.  The body of a response
\* that is not ok is never read, so it is taken to be empty.
ArticleResponded(c) ==
    /\ handler[c].pc = "net"
    /\ handler[c].tool = "get-article"
    /\ \E status \in Offered(Statuses, ConcurrentStatuses),
          collapsed \in Offered(ArticleContents, ConcurrentArticleContents) :
        LET h == handler[c]
            extracted == Trim(collapsed)
            content == articleResult(extracted, h.url)
        IN  IF ResponseOk(status)
            THEN /\ retry' = [retry EXCEPT ![c] =
                        [@ EXCEPT !.extracted = extracted, !.value = content,
                                  !.outcome = "returned"]]
                 /\ handler' = [handler EXCEPT ![c] =
                        [h EXCEPT !.pc = "done",
                                  !.newsText = content,
                                  !.response = Returned(FALSE, articleText(h.url, content))]]
            ELSE /\ collapsed = <<>>
                 /\ fnThrows(c,
                        articleCatch(articleHttpError(status, statusTextOf(status), h.url),
                                     h.url),
                        status)
    /\ UNCHANGED <<customRssUrl, now, active, op, arg, ret>>

\* fetch rejects (a transport failure).
ArticleFailed(c) ==
    /\ handler[c].pc = "net"
    /\ handler[c].tool = "get-article"
    /\ \E errorMessage \in Offered(ArticleMessages, ConcurrentArticleMessages) :
          fnThrows(c, articleCatch(JsError(errorMessage), handler[c].url), NoNumber)
    /\ UNCHANGED <<customRssUrl, now, active, op, arg, ret>>

\* The backoff timer fires: attempt++ and the loop goes on.
BackoffElapsed(c) ==
    /\ handler[c].pc = "backoff"
    /\ iterate(c, handler[c], [retry[c] EXCEPT !.attempt = @ + 1])
    /\ UNCHANGED <<customRssUrl, now, active, op, arg, ret>>

Next ==
    \E c \in Calls :
        \/ StartFeedTool(c)
        \/ StartGetArticle(c)
        \/ ListCategories(c)
        \/ FeedFetched(c)
        \/ FeedFailed(c)
        \/ ArticleResponded(c)
        \/ ArticleFailed(c)
        \/ BackoffElapsed(c)

Spec == Init /\ [][Next]_vars

\* The host makes both calls, in any order and at any time: the handlers
\* interleave at their awaits (the fetch and the backoff timer).
InitConcurrent ==
    /\ customRssUrl = None
    /\ now = MainNow
    /\ active = Calls
    /\ handler = [c \in Calls |-> IdleHandler]
    /\ retry = [c \in Calls |-> IdleRetry]
    /\ op = "none"
    /\ arg = <<>>
    /\ ret = NoRet

SpecConcurrent == InitConcurrent /\ [][Next]_vars

\* The awaits of call c end: its fetch resolves or rejects.
FetchSettles(c) ==
    FeedFetched(c) \/ FeedFailed(c) \/ ArticleResponded(c) \/ ArticleFailed(c)

\* The concurrent calls in an environment where every fetch settles and
\* every backoff timer fires.  Nothing obliges the host to make a call.
SpecFair ==
    /\ InitConcurrent
    /\ [][Next]_vars
    /\ \A c \in Calls : WF_vars(FetchSettles(c)) /\ WF_vars(BackoffElapsed(c))

(***************************************************************************)
(* The pipeline functions applied on their own, to bounded inputs          *)
(***************************************************************************)

MaxMsgLen == 2
MaxFilterItems == 2
MaxDaysBack == 5
MaxSampleItems == 5
MaxCount == 3
MaxWindow == 6

\* All sequences over S of length at most n.
RECURSIVE SeqsUpTo(_, _)
SeqsUpTo(S, n) ==
    IF n = 0 THEN {<<>>}
    ELSE LET shorter == SeqsUpTo(S, n - 1)
         IN  shorter \cup {Append(q, x) : q \in shorter, x \in S}

\* The pieces error messages are made of: the signatures fetchNews looks
\* for, and text that holds none.
MsgAtoms ==
    {"ENOTFOUND", "EAI_AGAIN", "ETIMEDOUT", "timeout", "ECONNREFUSED",
     "403", "Access denied", "404", "Status code ", "socket hang up"}

\* Feed items published up to three days before nowT, or with no usable date.
FilterItems(nowT) ==
    {Item(<<"t">>, pubDate, None, None) :
        pubDate \in {None, <<>>, <<"Unknown date">>}
                    \cup {DateString(t) : t \in (nowT - 3 * TicksPerDay)..nowT}}

\* n distinct items.
DistinctItems(n) ==
    [i \in 1..n |-> Item(<<ToString(i)>>, None, None, None)]

\* Item contents of SUMMARY_LENGTH - 3 to SUMMARY_LENGTH + MaxWindow - 3
\* characters with white space at the start and around SUMMARY_LENGTH.
FormatContents ==
    {<<lead>> \o Repeat("x", SUMMARY_LENGTH - 4) \o window :
        lead \in {"x", " "}, window \in SeqsUpTo({"x", " "}, MaxWindow)}

InitPipeline ==
    /\ customRssUrl = None
    /\ active = {}
    /\ handler = [c \in Calls |-> IdleHandler]
    /\ retry = [c \in Calls |-> IdleRetry]
    /\ ret = NoRet
    /\ \/ /\ op = "fetchNewsCatch"
          /\ now = MainNow
          /\ arg \in [errorMessage : SeqsUpTo(MsgAtoms, MaxMsgLen),
                      feedUrl : {CallerUrl}]
       \/ /\ op = "filterNewsByDate"
          /\ now \in 20..23
          /\ \E daysBack \in 0..MaxDaysBack,
                items \in SeqsUpTo(FilterItems(now), MaxFilterItems) :
                arg = [items |-> items, daysBack |-> daysBack]
       \/ /\ op = "getRandomNewsItems"
          /\ now = MainNow
          /\ \E n \in 0..MaxSampleItems, count \in 0..MaxCount :
                arg = [items |-> DistinctItems(n), count |-> count]
       \/ /\ op = "formatNewsAsBriefSummary"
          /\ now = MainNow
          /\ \E content \in FormatContents, inSnippet \in BOOLEAN :
                arg = [items |-> << IF inSnippet
                                    THEN Item(<<"t">>, None, content, None)
                                    ELSE Item(<<"t">>, None, None, content) >>,
                       limit |-> DEFAULT_LIMIT]

\* fetchNews' operation catches an underlying failure.
ApplyFetchNewsCatch ==
    /\ op = "fetchNewsCatch" /\ ~ret.done
    /\ ret' = Ret(fetchNewsCatch(arg.errorMessage, arg.feedUrl))
    /\ UNCHANGED <<customRssUrl, now, active, handler, retry, op, arg>>

ApplyFilterNewsByDate ==
    /\ op = "filterNewsByDate" /\ ~ret.done
    /\ ret' = Ret(filterNewsByDate(arg.items, arg.daysBack, now))
    /\ UNCHANGED <<customRssUrl, now, active, handler, retry, op, arg>>

ApplyGetRandomNewsItems ==
    /\ op = "getRandomNewsItems" /\ ~ret.done
    /\ \E draws \in RandomDraws(Len(arg.items), arg.count) :
          ret' = Ret(getRandomNewsItems(arg.items, arg.count, draws))
    /\ UNCHANGED <<customRssUrl, now, active, handler, retry, op, arg>>

ApplyFormatNewsAsBriefSummary ==
    /\ op = "formatNewsAsBriefSummary" /\ ~ret.done
    /\ ret' = Ret(formatNewsAsBriefSummary(formatNewsItems(arg.items), arg.limit))
    /\ UNCHANGED <<customRssUrl, now, active, handler, retry, op, arg>>

NextPipeline ==
    \/ ApplyFetchNewsCatch
    \/ ApplyFilterNewsByDate
    \/ ApplyGetRandomNewsItems
    \/ ApplyFormatNewsAsBriefSummary

SpecPipeline == InitPipeline /\ [][NextPipeline]_vars

(***************************************************************************)
(* Properties of the retry executor and the tool handlers (Spec)           *)
(***************************************************************************)

RECURSIVE SumSeq(_)
SumSeq(q) == IF q = <<>> THEN 0 ELSE Head(q) + SumSeq(Tail(q))

\* In every state: a withRetry that threw has called fn maxRetries + 1 times
\* and threw the error of the last call, which the handler reported; one that
\* returned left the handler with its result.
C1_State ==
    \A c \in Calls :
        LET h == handler[c]
            r == retry[c]
        IN  /\ r.fnCalls <= r.maxRetries + 1
            /\ r.outcome = "returned" => h.pc = "done" /\ r.fnCalls = r.attempt + 1
            /\ r.outcome = "threw" =>
                    /\ r.fnCalls = r.maxRetries + 1
                    /\ r.lastError = r.thrown
                    /\ r.thrown.name = "FetchError"
                    /\ h.pc = "done"
                    /\ Includes(h.response.text, r.thrown.message)

\* In every step: the step in which fn succeeds makes withRetry return
\* without another call of fn, and a finished withRetry never calls fn again.
C1_Step ==
    \A c \in Calls :
        /\ (retry[c].outcome = "none" /\ retry'[c].outcome = "returned") =>
                retry'[c].fnCalls = retry[c].fnCalls /\ handler'[c].pc = "done"
        /\ retry[c].outcome # "none" => retry'[c] = retry[c]

\* C1: withRetry stops at the first successful call of fn and returns
\* without calling fn again; if every call fails, fn is called exactly
\* maxRetries + 1 times and the error thrown to the caller is the one of the
\* last call.
C1_RetryUntilSuccessOrExhausted == []C1_State /\ [][C1_Step]_vars

\* A feed fetch that failed four times with different errors.
C1_Witness ==
    /\ retry["c1"].outcome = "threw"
    /\ retry["c1"].maxRetries = 3
    /\ retry["c1"].fnCalls = 4
    /\ retry["c1"].thrown.statusCode = 404

\* C2: the wait after the failed attempt with 0-based index k < maxRetries
\* is baseDelayMs * 2^k and no wait follows the last failed attempt; an
\* operation that fails twice and succeeds on its third attempt with
\* maxRetries = 3 and baseDelayMs = 1000 returns a success after waiting
\* 1000 + 2000 ms in total.
C2_BackoffSchedule ==
    \A c \in Calls :
        LET h == handler[c]
            r == retry[c]
        IN  /\ \A k \in 0..(Len(r.delays) - 1) :
                    k < r.maxRetries /\ r.delays[k + 1] = r.baseDelayMs * (2 ^ k)
            /\ h.pc = "net" => Len(r.delays) = r.fnCalls - 1
            /\ h.pc = "backoff" => Len(r.delays) = r.fnCalls
            /\ r.outcome = "returned" => Len(r.delays) = r.fnCalls - 1
            /\ r.outcome = "threw" => Len(r.delays) = r.maxRetries
            /\ (r.outcome = "returned" /\ r.fnCalls = 3 /\ r.maxRetries = 3
                    /\ r.baseDelayMs = 1000) =>
                    SumSeq(r.delays) = 1000 + 2000 /\ ~h.response.isError

\* A feed fetch that succeeded on its third attempt.
C2_Witness ==
    /\ retry["c1"].outcome = "returned"
    /\ retry["c1"].maxRetries = 3
    /\ retry["c1"].baseDelayMs = 1000
    /\ retry["c1"].fnCalls = 3
    /\ retry["c1"].delays = <<1000, 2000>>

\* C3: a call of any of the five tools ends with a returned envelope and
\* never with an exception: after exhausted retries the envelope has isError
\* and a text with the error's message, after a successful pipeline it has
\* the rendered text and no isError.
C3_AlwaysAnEnvelope ==
    \A c \in Calls :
        LET h == handler[c]
            r == retry[c]
        IN  /\ ~h.response.escaped
            /\ h.pc = "done" =>
                  /\ h.tool \in Tools
                  /\ h.response.text # None /\ h.response.text # <<>>
                  /\ r.outcome = "threw" =>
                        /\ h.response.isError
                        /\ Includes(h.response.text, r.lastError.message)
                  /\ r.outcome = "returned" =>
                        /\ ~h.response.isError
                        /\ Includes(h.response.text, h.newsText)
                  /\ r.outcome = "none" =>
                        /\ h.tool = "list-categories"
                        /\ ~h.response.isError

\* A get-weekly-news call answered with an error envelope.
C3_Witness ==
    /\ handler["c1"].pc = "done"
    /\ handler["c1"].tool = "get-weekly-news"
    /\ retry["c1"].outcome = "threw"
    /\ handler["c1"].response.isError

\* C5: the kind of a failure does not change the retries: a feed fetch whose
\* every attempt fails is attempted 4 times, an article fetch 3 times,
\* whatever the failures were, a failed attempt before the last is always
\* followed by a wait and another attempt, and a non-2xx status surfaces as
\* a FetchError with that status code.
C5_RetriesIgnoreKind ==
    \A c \in Calls :
        LET h == handler[c]
            r == retry[c]
        IN  /\ r.outcome = "threw" =>
                    r.fnCalls = (IF h.tool = "get-article" THEN 3 ELSE 4)
            /\ (r.thrown.name # "none" /\ r.outcome = "none") =>
                    /\ h.pc \in {"backoff", "net"}
                    /\ h.pc = "backoff" => r.lastError = r.thrown
            /\ r.status # NoNumber =>
                    /\ r.thrown.name = "FetchError"
                    /\ r.thrown.statusCode = r.status
                    /\ r.outcome = "threw" =>
                            /\ r.lastError.statusCode = r.status
                            /\ Includes(h.response.text, <<ToString(r.status)>>)

\* An article fetch given up after three responses, the last one a 404.
C5_Witness ==
    /\ handler["c1"].tool = "get-article"
    /\ retry["c1"].outcome = "threw"
    /\ retry["c1"].fnCalls = 3
    /\ retry["c1"].status = 404

\* C9: when the feed fetch succeeds and no item is left after filtering and
\* sampling, the formatter returns the "No news articles found ..." message,
\* never an empty string, and get-daily-news returns a success envelope
\* whose text holds that message.
C9_NoNewsMessage ==
    \A c \in Calls :
        LET h == handler[c]
        IN  (h.pc = "done" /\ h.tool \in FeedTools /\ retry[c].outcome = "returned") =>
                /\ h.newsText # <<>>
                /\ h.survivors = <<>> =>
                        /\ h.newsText =
                             <<"No news articles found for the specified criteria.">>
                        /\ ~h.response.isError
                        /\ ~h.response.escaped
                        /\ Includes(h.response.text,
                             <<"No news articles found for the specified criteria.">>)

\* A get-daily-news call for tech whose feed has nothing from the last day.
C9_Witness ==
    /\ handler["c1"].pc = "done"
    /\ handler["c1"].tool = "get-daily-news"
    /\ handler["c1"].category = "tech"
    /\ retry["c1"].outcome = "returned"
    /\ handler["c1"].survivors = <<>>
    /\ ~handler["c1"].response.isError

\* C10: the URL a feed tool fetches is the call's customUrl if given, else
\* the configured customRssUrl if configured, else the default URL of the
\* category (all when absent).
C10_FeedUrlResolution ==
    \A c \in Calls :
        LET h == handler[c]
        IN  (h.tool \in FeedTools) =>
                retry[c].url =
                    (IF h.customUrl # None THEN h.customUrl
                     ELSE IF customRssUrl # None THEN customRssUrl
                     ELSE VERGE_FEEDS(IF h.category = NoCategory THEN "all"
                                      ELSE h.category))

\* A call with both overrides and a category: the caller's URL is fetched.
C10_Witness ==
    /\ handler["c1"].tool = "search-news"
    /\ handler["c1"].customUrl = CallerUrl
    /\ customRssUrl = ConfigUrl
    /\ handler["c1"].category = "science"
    /\ retry["c1"].url = CallerUrl
    /\ retry["c1"].fnCalls = 2

\* C11: for an article response that is ok, with extracted text T: if T is
\* empty or shorter than 100 characters the fetcher returns the fallback
\* message with the original URL as a value, without an error and without a
\* retry; if T has 100 to 5000 characters it returns T; if T has more than
\* 5000 characters it returns the first 5000 of them and the truncation
\* notice.
C11_ArticleLengthPolicy ==
    \A c \in Calls :
        LET h == handler[c]
            r == retry[c]
            T == r.extracted
        IN  (h.tool = "get-article" /\ r.outcome = "returned") =>
                /\ h.pc = "done"
                /\ ~h.response.isError
                /\ ~h.response.escaped
                /\ r.fnCalls = r.attempt + 1
                /\ Len(r.delays) = r.attempt
                /\ Includes(h.response.text, r.value)
                /\ Len(T) < 100 =>
                        r.value =
                          <<"Could not extract article content. Please visit the URL directly: ">>
                            \o h.url
                /\ (Len(T) >= 100 /\ Len(T) <= 5000) => r.value = T
                /\ Len(T) > 5000 =>
                        r.value = SubSeq(T, 1, 5000)
                            \o <<".", ".", ".",
                                 "\n\n[Content truncated. Visit the full article for more.]">>

\* A first response with 5001 characters of text: 5000 of them and the
\* notice are returned.
C11_Witness ==
    /\ handler["c1"].tool = "get-article"
    /\ retry["c1"].outcome = "returned"
    /\ retry["c1"].fnCalls = 1
    /\ Len(retry["c1"].extracted) = 5001
    /\ Len(retry["c1"].value) = 5004
    /\ retry["c1"].value[5000] = "x"
    /\ ~handler["c1"].response.isError

(***************************************************************************)
(* One call run alone, as a function of the outcomes of its attempts       *)
(***************************************************************************)

\* What one call of fn ends with: it throws error, or it returns value.
Threw(error) == [ok |-> FALSE, error |-> error, value |-> <<>>]
Gave(value) == [ok |-> TRUE, error |-> NoError, value |-> value]

\* The retry policy each fetcher passes to withRetry.
policyOf(toolName) ==
    IF toolName = "get-article"
    THEN [maxRetries |-> ARTICLE_MAX_RETRIES, baseDelayMs |-> ARTICLE_BASE_DELAY]
    ELSE [maxRetries |-> FEED_MAX_RETRIES, baseDelayMs |-> FEED_BASE_DELAY]

\* The frame withRetry starts with: attempt = 0, lastError undefined.
NewFrame ==
    [attempt |-> 0, lastError |-> NoError, fnCalls |-> 0, delays |-> <<>>,
     value |-> <<>>, outcome |-> "none"]

\* withRetry run without any other call, on the outcomes of its calls of fn
\* in order.  outcome stays "none" when the outcomes run out before the loop
\* ends.
RECURSIVE withRetryAlone(_, _, _)
withRetryAlone(outcomes, policy, f) ==
    IF ~loopContinues(f.attempt, policy.maxRetries)
    THEN [f EXCEPT !.outcome = "threw"]
    ELSE IF outcomes = <<>>
    THEN f
    ELSE IF Head(outcomes).ok
    THEN [f EXCEPT !.fnCalls = @ + 1, !.value = Head(outcomes).value,
                   !.outcome = "returned"]
    ELSE withRetryAlone(Tail(outcomes), policy,
            [f EXCEPT
                !.fnCalls = @ + 1,
                !.lastError = caught(@, Head(outcomes).error),
                !.delays = IF waitsAfter(f.attempt, policy.maxRetries)
                           THEN Append(@, delayMs(policy.baseDelayMs, f.attempt))
                           ELSE @,
                !.attempt = @ + 1])

\* The responses handler h can give, alone, to what withRetry ended with.
responsesAlone(h, run, configUrl, nowT) ==
    IF run.outcome = "threw"
    THEN {handlerCatch(h.tool, run.lastError, h.url)}
    ELSE IF h.tool = "get-article"
    THEN {Returned(FALSE, articleText(h.url, run.value))}
    ELSE LET pool == IF h.tool = "get-weekly-news"
                     THEN Len(filterNewsByDate(run.value, WEEKLY_DAYS * TicksPerDay, nowT))
                     ELSE 0
         IN  { LET survivors == survivorsOf(h.tool, run.value, h.days, h.keyword,
                                            draws, nowT)
               IN  Returned(FALSE,
                       successText(h.tool,
                           sourceNameOf(h.customUrl, configUrl, categoryOf(h.category)),
                           survivors, newsTextOf(h.tool, survivors), h.days, h.keyword))
               : draws \in RandomDraws(pool, RANDOM_COUNT) }

\* The errors fn of call c can throw, given what the environment offers.
fnErrors(c) ==
    IF handler[c].tool = "get-article"
    THEN { articleCatch(JsError(m), handler[c].url) :
                m \in Offered(ArticleMessages, ConcurrentArticleMessages) }
         \cup { articleCatch(articleHttpError(st, statusTextOf(st), handler[c].url),
                             handler[c].url) :
                st \in {x \in Offered(Statuses, ConcurrentStatuses) : ~ResponseOk(x)} }
    ELSE { fetchNewsCatch(m, retry[c].url) :
                m \in Offered(FeedMessages, ConcurrentFeedMessages) }

\* The calls of fn of call c that have thrown so far.
failedCalls(c) ==
    IF handler[c].pc = "net" \/ retry[c].outcome = "returned"
    THEN retry[c].fnCalls - 1
    ELSE retry[c].fnCalls

\* The sequences of outcomes call c can have seen: failedCalls(c) errors,
\* the last of them the one it recorded, then the value if it returned.
outcomesOf(c) ==
    LET n == failedCalls(c)
    IN  { [i \in 1..(n + (IF retry[c].outcome = "returned" THEN 1 ELSE 0)) |->
                IF i <= n THEN Threw(e[i]) ELSE Gave(retry[c].value)] :
          e \in {x \in [1..n -> fnErrors(c)] : n > 0 => x[n] = retry[c].thrown} }

(***************************************************************************)
(* Properties of concurrent calls (SpecConcurrent)                         *)
(***************************************************************************)

\* Call c is where the same call, alone, is after the same outcomes.
C12_AsAlone(c) ==
    LET h == handler[c]
        r == retry[c]
    IN  /\ r.maxRetries = policyOf(h.tool).maxRetries
        /\ r.baseDelayMs = policyOf(h.tool).baseDelayMs
        /\ r.thrown \in fnErrors(c) \cup {NoError}
        /\ outcomesOf(c) # {}
        /\ \A outcomes \in outcomesOf(c) :
            LET run == withRetryAlone(outcomes, policyOf(h.tool), NewFrame)
            IN  /\ run.lastError = r.lastError
                /\ run.delays = r.delays
                /\ h.pc = "net" =>
                        /\ run.outcome = "none"
                        /\ run.attempt = r.attempt
                        /\ run.fnCalls + 1 = r.fnCalls
                /\ h.pc = "backoff" =>
                        /\ run.outcome = "none"
                        /\ run.attempt = r.attempt + 1
                        /\ run.fnCalls = r.fnCalls
                /\ h.pc = "done" =>
                        /\ run.outcome = r.outcome
                        /\ run.fnCalls = r.fnCalls
                        /\ run.value = r.value
                        /\ h.response \in responsesAlone(h, run, customRssUrl, now)

\* C12: concurrent tool calls are independent: each has its own attempt
\* counter, starting at zero, and its own last error, so that wherever the
\* calls interleave at their fetches and backoffs, each makes the attempts
\* and gives the response it would make and give alone on the same fetch
\* outcomes; the failures of one call take nothing from the retry budget of
\* another or of a later one.
C12_ConcurrentCallsIndependent ==
    \A c \in Calls :
        /\ handler[c].pc = "idle" => retry[c] = IdleRetry
        /\ handler[c].tool \in Tools \ {"list-categories"} => C12_AsAlone(c)
        /\ (handler[c].pc = "net" /\ retry[c].fnCalls = 1) =>
                retry[c].attempt = 0 /\ retry[c].lastError = NoError

\* Both calls are in flight: a feed call about to make its fourth attempt
\* while an article call waits after its second failure.
C12_Witness ==
    /\ active = Calls
    /\ handler["c1"].tool = "get-daily-news"
    /\ handler["c1"].pc = "net"
    /\ retry["c1"].fnCalls = 4
    /\ handler["c2"].tool = "get-article"
    /\ handler["c2"].pc = "backoff"
    /\ retry["c2"].fnCalls = 2
    /\ retry["c1"].lastError # retry["c2"].lastError

(***************************************************************************)
(* Termination (SpecFair)                                                  *)
(***************************************************************************)

\* C13: when every fetch attempt settles and every backoff elapses, each
\* tool call that has started returns a response: the result, or the error
\* response once its retry budget is spent, after at most 4 attempts for a
\* feed tool and at most 3 for get-article; no call retries forever.
C13_EveryCallReturns ==
    /\ \A c \in Calls :
            [](handler[c].pc # "idle" =>
                    <>(/\ handler[c].pc = "done"
                       /\ ~handler[c].response.escaped
                       /\ handler[c].response.text # None
                       /\ retry[c].outcome = "threw" => handler[c].response.isError))
    /\ [](\A c \in Calls :
            /\ handler[c].tool \in FeedTools => retry[c].fnCalls <= 4
            /\ handler[c].tool = "get-article" => retry[c].fnCalls <= 3
            /\ (handler[c].pc = "done" /\ retry[c].outcome = "threw") =>
                    retry[c].fnCalls = (IF handler[c].tool = "get-article" THEN 3 ELSE 4))

\* Both calls have spent their budgets and returned error responses.
C13_Witness ==
    /\ active = Calls
    /\ handler["c1"].tool \in FeedTools
    /\ handler["c2"].tool = "get-article"
    /\ \A c \in Calls :
            /\ handler[c].pc = "done"
            /\ retry[c].outcome = "threw"
            /\ handler[c].response.isError
    /\ retry["c1"].fnCalls = 4
    /\ retry["c2"].fnCalls = 3

(***************************************************************************)
(* Properties of the pipeline functions (SpecPipeline)                     *)
(***************************************************************************)

\* The failure kinds in the order of their priority: the signatures of each,
\* the message it is reported with and the status code it carries.
C4_Kinds ==
    << [sigs |-> {"ENOTFOUND", "EAI_AGAIN"}, statusCode |-> NoNumber, message |->
          <<"DNS resolution failed - cannot reach the server. Check your internet connection.">>],
       [sigs |-> {"ETIMEDOUT", "timeout"}, statusCode |-> NoNumber, message |->
          <<"Request timed out - the server took too long to respond.">>],
       [sigs |-> {"ECONNREFUSED"}, statusCode |-> NoNumber, message |->
          <<"Connection refused - the server is not accepting connections.">>],
       [sigs |-> {"403", "Access denied"}, statusCode |-> 403, message |->
          <<"Access denied - the server blocked the request. Try again later.">>],
       [sigs |-> {"404"}, statusCode |-> 404, message |->
          <<"Feed not found - the RSS feed URL may be incorrect.">>] >>

\* The kinds with a signature that occurs in the message.
C4_Matching(errorMessage) ==
    {k \in 1..Len(C4_Kinds) :
        \E i \in 1..Len(errorMessage) : errorMessage[i] \in C4_Kinds[k].sigs}

\* C4: the feed fetcher reports a failure as the first kind in the order DNS
\* > timeout > connection refused > access denied (status 403) > not found
\* (status 404) with a signature in the message, and as the generic "Failed
\* to fetch RSS feed" kind wrapping the message when none occurs.
C4_ClassificationPriority ==
    (op = "fetchNewsCatch" /\ ret.done) =>
        LET matching == C4_Matching(arg.errorMessage)
            e == ret.value
        IN  /\ e.name = "FetchError"
            /\ e.url = arg.feedUrl
            /\ IF matching = {}
               THEN /\ e.message = <<"Failed to fetch RSS feed: ">> \o arg.errorMessage
                    /\ e.statusCode = NoNumber
               ELSE LET first == CHOOSE k \in matching : \A j \in matching : k <= j
                    IN  /\ e.message = C4_Kinds[first].message
                        /\ e.statusCode = C4_Kinds[first].statusCode

\* A message with 404 before ENOTFOUND, reported as a DNS failure.
C4_Witness ==
    /\ op = "fetchNewsCatch"
    /\ ret.done
    /\ arg.errorMessage = <<"404", "ENOTFOUND">>
    /\ ret.value.message = C4_Kinds[1].message
    /\ ret.value.statusCode = NoNumber

\* The items the claim has the date filter keep: the publication date is
\* present, is a date, and is not older than daysBack ticks.
C6_Kept(items, daysBack) ==
    SelectSeq(items,
        LAMBDA item :
            /\ item.pubDate # None
            /\ \E t \in 0..MaxTime :
                  item.pubDate = DateString(t) /\ t >= now - daysBack)

\* C6: the date filter keeps an item if and only if its publication date is
\* present, parses to a valid point in time, and that time is >= now - N
\* days; the kept items are in the order of the input.
C6_DateFilter ==
    (op = "filterNewsByDate" /\ ret.done) =>
        ret.value = C6_Kept(arg.items, arg.daysBack)

\* C6, for a whole number N of days: the date filter keeps exactly the items
\* with a valid publication date not older than N days, in their order.
C6_DateFilterWholeDays ==
    (op = "filterNewsByDate" /\ ret.done /\ arg.daysBack % TicksPerDay = 0) =>
        ret.value = C6_Kept(arg.items, arg.daysBack)

\* C7: the sampler returns the input unchanged when it has at most count
\* items; otherwise it returns exactly count items, each an item of the
\* input and no two from the same position, whatever the random choices.
C7_SampleWithoutReplacement ==
    (op = "getRandomNewsItems" /\ ret.done) =>
        LET items == arg.items
            out == ret.value
        IN  IF Len(items) <= arg.count THEN out = items
            ELSE /\ Len(out) = arg.count
                 /\ \A i \in 1..Len(out) :
                       \E p \in 1..Len(items) : out[i] = items[p]
                 /\ \A i, j \in 1..Len(out) : i # j => out[i] # out[j]

\* Three of five items, the last of the input first.
C7_Witness ==
    /\ op = "getRandomNewsItems"
    /\ ret.done
    /\ Len(arg.items) = 5
    /\ arg.count = 3
    /\ ret.value = <<arg.items[5], arg.items[1], arg.items[3]>>

\* The text before the summary in the block of the item the formatter is
\* given.
C8_Prefix ==
    <<"\n", "1", ". ", "t", "\n   Published: ", "Unknown date",
      "\n   Author: ", "Unknown author", "\n   Link: ", "#", "\n   Summary: ">>

\* The content of that item, and the summary in the rendered text.
C8_Content ==
    IF arg.items[1].contentSnippet # None THEN arg.items[1].contentSnippet
    ELSE arg.items[1].content
C8_Summary == SubSeq(ret.value, Len(C8_Prefix) + 1, Len(ret.value) - 1)

\* The rendered text is the prefix, a summary and a line end.
C8_Rendered ==
    /\ Len(ret.value) > Len(C8_Prefix)
    /\ SubSeq(ret.value, 1, Len(C8_Prefix)) = C8_Prefix
    /\ ret.value[Len(ret.value)] = "\n"

\* s is text without the white space at its two ends.
C8_Trimmed(s, text) ==
    \E i \in 1..(Len(text) + 1), j \in 0..Len(text) :
        /\ s = SubSeq(text, i, j)
        /\ \A k \in 1..Len(text) : (k < i \/ k > j) => text[k] \in {" ", "\n"}
        /\ s # <<>> => s[1] \notin {" ", "\n"} /\ s[Len(s)] \notin {" ", "\n"}

\* C8 as stated: content of at most 150 characters gets no ellipsis, longer
\* content is rendered as exactly its first 150 characters and "...".
C8_ExactTruncation ==
    (op = "formatNewsAsBriefSummary" /\ ret.done) =>
        /\ C8_Rendered
        /\ Len(C8_Content) <= 150 => ~Includes(C8_Summary, <<".">>)
        /\ Len(C8_Content) > 150 =>
                C8_Summary = SubSeq(C8_Content, 1, 150) \o <<".", ".", ".">>

\* C8, amended: content of at most 150 characters is rendered without its
\* white space at the ends and gets no ellipsis; longer content is rendered
\* as its first 150 characters without their white space at the ends,
\* followed by "...".
C8_TrimmedTruncation ==
    (op = "formatNewsAsBriefSummary" /\ ret.done) =>
        /\ C8_Rendered
        /\ Len(C8_Content) <= 150 => C8_Trimmed(C8_Summary, C8_Content)
        /\ Len(C8_Content) > 150 =>
                /\ Len(C8_Summary) >= 3
                /\ SubSeq(C8_Summary, Len(C8_Summary) - 2, Len(C8_Summary))
                        = <<".", ".", ".">>
                /\ C8_Trimmed(SubSeq(C8_Summary, 1, Len(C8_Summary) - 3),
                              SubSeq(C8_Content, 1, 150))

\* Content of 151 characters with a space at position 150: the summary has
\* 149 characters and the ellipsis.
C8_Witness ==
    /\ op = "formatNewsAsBriefSummary"
    /\ ret.done
    /\ Len(C8_Content) = 151
    /\ C8_Content[150] = " "
    /\ C8_Content[149] = "x"
    /\ C8_Content[1] = "x"
    /\ Len(C8_Summary) = 149 + 3

====
